---- MODULE Spec2Model ----
(***************************************************************************)
(* A model of ant_nest/things.py: the field descriptors (IntField and its  *)
(* subclasses), the record type Item with its shadow storage, the          *)
(* Response views and the ItemExtractor.                                   *)
(*                                                                         *)
(* Python strings are sequences of one-character strings, so that the      *)
(* shadow-name helpers (prefixing, substring test, str.replace) and the    *)
(* conversions int(), float(), str(), bytes() are computed, not assumed.   *)
(* A Python value is a pair <<tag, payload>>.                              *)
(***************************************************************************)
EXTENDS Integers, Sequences, FiniteSets, TLC

VARIABLES
    schema,     \* the record type: the IntField descriptors of the class body, in order
    item,       \* the record instance's __dict__: storage name -> value
    path,       \* ItemExtractor.path: the rule set, keys in insertion order
    response,   \* the Response object: its body and its three cached views
    last        \* the most recent call: its name, arguments, return value or exception

vars == <<schema, item, path, response, last>>

(***************************************************************************)
(* Strings                                                                 *)
(***************************************************************************)
Digits == <<"0", "1", "2", "3", "4", "5", "6", "7", "8", "9">>

IsDigit(c) == \E i \in 1..10 : Digits[i] = c

DigitVal(c) == (CHOOSE i \in 1..10 : Digits[i] = c) - 1

IsSpace(c) == c \in {" ", "\t", "\n", "\r"}

RECURSIVE LStrip(_)
LStrip(s) == IF s # <<>> /\ IsSpace(Head(s)) THEN LStrip(Tail(s)) ELSE s

RECURSIVE RStrip(_)
RStrip(s) ==
    IF s # <<>> /\ IsSpace(s[Len(s)]) THEN RStrip(SubSeq(s, 1, Len(s) - 1)) ELSE s

\* str.strip()
Strip(s) == RStrip(LStrip(s))

StartsWith(s, p) == Len(s) >= Len(p) /\ SubSeq(s, 1, Len(p)) = p

\* p in s, for strings
Contains(s, p) == \E i \in 0..(Len(s) - Len(p)) : SubSeq(s, i + 1, i + Len(p)) = p

\* s.replace(p, ''): the occurrences of p are removed in one pass, left to right
RECURSIVE RemoveAll(_, _)
RemoveAll(s, p) ==
    IF Len(s) < Len(p) THEN s
    ELSE IF StartsWith(s, p) THEN RemoveAll(SubSeq(s, Len(p) + 1, Len(s)), p)
    ELSE <<Head(s)>> \o RemoveAll(Tail(s), p)

RECURSIVE NatToStr(_)
NatToStr(n) == IF n < 10 THEN <<Digits[n + 1]>> ELSE NatToStr(n \div 10) \o <<Digits[(n % 10) + 1]>>

IntToStr(n) == IF n < 0 THEN <<"-">> \o NatToStr(-n) ELSE NatToStr(n)

RECURSIVE DigitsToNat(_, _)
DigitsToNat(s, acc) ==
    IF s = <<>> THEN acc
    ELSE IF Head(s) = "_" THEN DigitsToNat(Tail(s), acc)
    ELSE DigitsToNat(Tail(s), 10 * acc + DigitVal(Head(s)))

\* the digit part of an integer literal: digits, single underscores between them
IsDigitPart(s) ==
    /\ s # <<>>
    /\ IsDigit(s[1]) /\ IsDigit(s[Len(s)])
    /\ \A i \in 1..Len(s) : IsDigit(s[i]) \/ s[i] = "_"
    /\ \A i \in 1..(Len(s) - 1) : ~(s[i] = "_" /\ s[i + 1] = "_")

(***************************************************************************)
(* Calls return [exc, ret]: exc = "" and the value, or the exception's     *)
(* class name and its message.                                             *)
(***************************************************************************)
Ok(v) == [exc |-> "", ret |-> v]

Raise(e, msg) == [exc |-> e, ret |-> msg]

(***************************************************************************)
(* IntField's shadow-name helpers                                          *)
(***************************************************************************)
ShadowNamePrefix == <<"_", "_", "f", "i", "e", "l", "d", "#">>

make_shadow_name(name) ==
    IF name = ShadowNamePrefix
    THEN Raise("AttributeError", <<"This name has been used internally", ShadowNamePrefix>>)
    ELSE Ok(ShadowNamePrefix \o name)

is_shadow_name(name) == Contains(name, ShadowNamePrefix)

get_name_from_shadow(name) == RemoveAll(name, ShadowNamePrefix)

(***************************************************************************)
(* Python values: <<tag, payload>>.  A float of the model is integral      *)
(* (<<"float", 128>> is 128.0) or infinite (<<"inf", 1>>, <<"inf", -1>>).   *)
(***************************************************************************)
Tag(x) == x[1]

Val(x) == x[2]

PyNone == <<"none", 0>>

PyStrVal(s) == <<"str", s>>

PyIntVal(n) == <<"int", n>>

PyFloatVal(n) == <<"float", n>>

PyInf(sign) == <<"inf", sign>>

PyBool(b) == <<"bool", IF b THEN 1 ELSE 0>>

PyList(seq) == <<"list", seq>>

PyBytesVal(seq) == <<"bytes", seq>>

IsStr(x) == Tag(x) = "str"

\* bool is a subclass of int; both kinds of float are float
IsNumber(x) == Tag(x) \in {"int", "bool", "float"}

\* value == other, as Python compares the built-in types
RECURSIVE PyEq(_, _)
PyEq(x, y) ==
    IF IsNumber(x) /\ IsNumber(y) THEN Val(x) = Val(y)
    ELSE IF Tag(x) # Tag(y) THEN FALSE
    ELSE IF Tag(x) = "list"
         THEN /\ Len(Val(x)) = Len(Val(y))
              /\ \A i \in 1..Len(Val(x)) : PyEq(Val(x)[i], Val(y)[i])
    ELSE Val(x) = Val(y)

HexDigits == <<"0", "1", "2", "3", "4", "5", "6", "7", "8", "9", "a", "b", "c", "d", "e", "f">>

\* one byte of repr(bytes); the bytes of the model are digits or unprintable
ByteRepr(b) ==
    IF b \in 48..57 THEN <<Digits[b - 47]>>
    ELSE <<"\\", "x", HexDigits[(b \div 16) + 1], HexDigits[(b % 16) + 1]>>

RECURSIVE BytesRepr(_)
BytesRepr(bs) == IF bs = <<>> THEN <<>> ELSE ByteRepr(Head(bs)) \o BytesRepr(Tail(bs))

\* str(value); inside a list the elements are shown by repr, which quotes strings
RECURSIVE PyStrOf(_, _)
PyStrOf(x, quoted) ==
    CASE Tag(x) = "str" -> IF quoted THEN <<"'">> \o Val(x) \o <<"'">> ELSE Val(x)
      [] Tag(x) = "int" -> IntToStr(Val(x))
      [] Tag(x) = "bool" -> IF Val(x) = 1 THEN <<"T", "r", "u", "e">> ELSE <<"F", "a", "l", "s", "e">>
      [] Tag(x) = "float" -> IntToStr(Val(x)) \o <<".", "0">>
      [] Tag(x) = "inf" -> (IF Val(x) < 0 THEN <<"-">> ELSE <<>>) \o <<"i", "n", "f">>
      [] Tag(x) = "none" -> <<"N", "o", "n", "e">>
      [] Tag(x) = "bytes" -> <<"b", "'">> \o BytesRepr(Val(x)) \o <<"'">>
      [] Tag(x) = "list" ->
            LET RECURSIVE Join(_)
                Join(seq) ==
                    IF seq = <<>> THEN <<>>
                    ELSE IF Len(seq) = 1 THEN PyStrOf(seq[1], TRUE)
                    ELSE PyStrOf(seq[1], TRUE) \o <<",", " ">> \o Join(Tail(seq))
            IN  <<"[">> \o Join(Val(x)) \o <<"]">>

\* the sign and the digit part of a stripped numeric literal
SignOf(s) == IF s # <<>> /\ Head(s) = "-" THEN -1 ELSE 1

Unsigned(s) == IF s # <<>> /\ Head(s) \in {"+", "-"} THEN Tail(s) ELSE s

\* int(value)
PyInt(x) ==
    CASE Tag(x) \in {"int", "bool", "float"} -> Ok(PyIntVal(Val(x)))
      [] Tag(x) = "inf" -> Raise("OverflowError", "cannot convert float infinity to integer")
      [] Tag(x) = "str" ->
            LET s == Strip(Val(x))
            IN  IF IsDigitPart(Unsigned(s))
                THEN Ok(PyIntVal(SignOf(s) * DigitsToNat(Unsigned(s), 0)))
                ELSE Raise("ValueError", "invalid literal for int() with base 10")
      [] Tag(x) = "bytes" ->
            IF Val(x) # <<>> /\ \A i \in 1..Len(Val(x)) : Val(x)[i] \in 48..57
            THEN Ok(PyIntVal(DigitsToNat(BytesRepr(Val(x)), 0)))
            ELSE Raise("ValueError", "invalid literal for int() with base 10")
      [] OTHER -> Raise("TypeError", "int() argument must be a string, a bytes-like object or a number")

InfWords == {<<"i", "n", "f">>, <<"i", "n", "f", "i", "n", "i", "t", "y">>,
             <<"I", "n", "f">>, <<"I", "n", "f", "i", "n", "i", "t", "y">>}

\* float(value); the decimal literals of the model have no fraction
PyFloat(x) ==
    CASE Tag(x) \in {"int", "bool", "float"} -> Ok(PyFloatVal(Val(x)))
      [] Tag(x) = "inf" -> Ok(x)
      [] Tag(x) = "str" ->
            LET s == Strip(Val(x))
            IN  IF IsDigitPart(Unsigned(s))
                THEN Ok(PyFloatVal(SignOf(s) * DigitsToNat(Unsigned(s), 0)))
                ELSE IF Unsigned(s) \in InfWords THEN Ok(PyInf(SignOf(s)))
                ELSE Raise("ValueError", "could not convert string to float")
      [] Tag(x) = "bytes" ->
            IF Val(x) # <<>> /\ \A i \in 1..Len(Val(x)) : Val(x)[i] \in 48..57
            THEN Ok(PyFloatVal(DigitsToNat(BytesRepr(Val(x)), 0)))
            ELSE Raise("ValueError", "could not convert string to float")
      [] OTHER -> Raise("TypeError", "float() argument must be a string or a number")

\* a str() that quotes like repr()
PyStr_Repr(x) == Ok(PyStrVal(PyStrOf(x, TRUE)))

\* str(value) never fails
PyStr(x) == Ok(PyStrVal(PyStrOf(x, FALSE)))

\* bytes(value): an int gives that many zero bytes, a list its elements as bytes
PyBytes(x) ==
    CASE Tag(x) \in {"int", "bool"} ->
            IF Val(x) < 0 THEN Raise("ValueError", "negative count")
            ELSE Ok(PyBytesVal([i \in 1..Val(x) |-> 0]))
      [] Tag(x) = "bytes" -> Ok(x)
      [] Tag(x) = "list" ->
            IF \E i \in 1..Len(Val(x)) : Tag(Val(x)[i]) \notin {"int", "bool"}
            THEN Raise("TypeError", "object cannot be interpreted as an integer")
            ELSE IF \E i \in 1..Len(Val(x)) : Val(Val(x)[i]) \notin 0..255
            THEN Raise("ValueError", "bytes must be in range(0, 256)")
            ELSE Ok(PyBytesVal([i \in 1..Len(Val(x)) |-> Val(Val(x)[i])]))
      [] Tag(x) = "str" -> Raise("TypeError", "string argument without an encoding")
      [] OTHER -> Raise("TypeError", "cannot convert object to bytes")

\* '{:s}'.format(value): only a str accepts the format code s
Format_s(x) ==
    CASE Tag(x) = "str" -> Ok(Val(x))
      [] Tag(x) \in {"int", "bool", "float", "inf"} -> Raise("ValueError", "Unknown format code 's'")
      [] OTHER -> Raise("TypeError", "unsupported format string")

(***************************************************************************)
(* Field descriptors.  A descriptor is [name, type, null, default]: the    *)
(* attribute name of the class body, the class (its _type), and the two    *)
(* constructor arguments; default = PyNone means no default.               *)
(***************************************************************************)
IntField(name, null, default) == [name |-> name, type |-> "int", null |-> null, default |-> default]

FloatField(name, null, default) == [name |-> name, type |-> "float", null |-> null, default |-> default]

StringField(name, null, default) == [name |-> name, type |-> "str", null |-> null, default |-> default]

BytesField(name, null, default) == [name |-> name, type |-> "bytes", null |-> null, default |-> default]

\* self._type(value)
Convert(type, x) ==
    CASE type = "int" -> PyInt(x)
      [] type = "float" -> PyFloat(x)
      [] type = "str" -> PyStr(x)
      [] type = "bytes" -> PyBytes(x)

\* IntField.validate: ValueError and TypeError become FieldValidationError(str(e))
FieldValidate(field, x) ==
    LET r == Convert(field.type, x)
    IN  IF r.exc \in {"ValueError", "TypeError"}
        THEN Raise("FieldValidationError", [fmt |-> "str(e)", args |-> <<r.exc, r.ret>>])
        ELSE r

(***************************************************************************)
(* The record type.  schema = [name, fields]: the class name and the       *)
(* IntField instances of the class body in declaration order.  ItemMeta    *)
(* gives each its storage name when the class is created.                  *)
(***************************************************************************)
FieldIndex(cls, k) == {i \in 1..Len(cls.fields) : cls.fields[i].name = k}

\* isinstance(cls.__dict__.get(k), IntField)
IsField(cls, k) == FieldIndex(cls, k) # {}

FieldOf(cls, k) == cls.fields[CHOOSE i \in FieldIndex(cls, k) : TRUE]

\* ItemMeta.__init__: v.storage_name = IntField.make_shadow_name(k)
storage_name(field) == make_shadow_name(field.name).ret

\* what the class itself answers for a name that is no field and not in __dict__
ClassAttrs == {<<"_", "i", "s", "_", "v", "a", "l", "i", "d", "a", "t", "i", "n", "g">>}

ClassAttr(k) == PyBool(FALSE)

(***************************************************************************)
(* Attribute access on an instance whose __dict__ is d.  A field of the    *)
(* class is a data descriptor, found before the instance's __dict__; its   *)
(* hooks redirect to the attribute called storage_name.                    *)
(***************************************************************************)
DictSet(d, k, v) == (k :> v) @@ d

DictDel(d, k) == [j \in (DOMAIN d) \ {k} |-> d[j]]

\* Item.__setattr__ with a string key, and IntField.__set__
RECURSIVE SetAttr(_, _, _, _)
SetAttr(cls, d, k, v) ==
    IF IsField(cls, k) THEN SetAttr(cls, d, storage_name(FieldOf(cls, k)), v)
    ELSE DictSet(d, k, v)

\* getattr(instance, k), and IntField.__get__
RECURSIVE GetAttr(_, _, _)
GetAttr(cls, d, k) ==
    IF IsField(cls, k)
    THEN LET r == GetAttr(cls, d, storage_name(FieldOf(cls, k)))
         IN  IF r.exc = "AttributeError"
             THEN Raise("AttributeError",
                        [fmt |-> "object has no attribute",
                         args |-> <<cls.name, get_name_from_shadow(storage_name(FieldOf(cls, k)))>>])
             ELSE r
    ELSE IF k \in DOMAIN d THEN Ok(d[k])
    ELSE IF k \in ClassAttrs THEN Ok(ClassAttr(k))
    ELSE Raise("AttributeError", [fmt |-> "object has no attribute", args |-> <<cls.name, k>>])

\* delattr(instance, k), and IntField.__delete__; returns [exc, ret]: ret is the new __dict__
RECURSIVE DelAttr(_, _, _)
DelAttr(cls, d, k) ==
    IF IsField(cls, k) THEN DelAttr(cls, d, storage_name(FieldOf(cls, k)))
    ELSE IF k \in DOMAIN d THEN Ok(DictDel(d, k))
    ELSE Raise("AttributeError", [fmt |-> "object has no attribute", args |-> <<cls.name, k>>])

(***************************************************************************)
(* Item as a MutableMapping                                                *)
(***************************************************************************)
\* Item.__setitem__ with a string key: the new __dict__
SetItemDict(cls, d, k, v) == SetAttr(cls, d, k, v)

\* Item.__getitem__: AttributeError becomes KeyError
GetItemOf(cls, d, k) ==
    LET r == GetAttr(cls, d, k)
    IN  IF r.exc = "AttributeError" THEN Raise("KeyError", r.ret) ELSE r

\* Item.__delitem__: AttributeError becomes KeyError
DelItemOf(cls, d, k) ==
    LET r == DelAttr(cls, d, k)
    IN  IF r.exc = "AttributeError" THEN Raise("KeyError", r.ret) ELSE r

\* k in self: Mapping.__contains__ tries self[k] and answers False on KeyError
Has(cls, d, k) == GetItemOf(cls, d, k).exc # "KeyError"

\* Item.__len__
LenOf(d) == Cardinality(DOMAIN d)

\* Item.__iter__: how many times iteration yields the name k
IterCount(d, k) ==
    Cardinality({s \in DOMAIN d : (IF is_shadow_name(s) THEN get_name_from_shadow(s) ELSE s) = k})

\* Item.__iter__: the names iteration yields
IterKeys(d) == {IF is_shadow_name(s) THEN get_name_from_shadow(s) ELSE s : s \in DOMAIN d}

\* Item.__init__, first loop: setattr(self, k, v) for the keyword arguments
RECURSIVE SetAll(_, _, _, _)
SetAll(cls, d, kwargs, keys) ==
    IF keys = {} THEN d
    ELSE LET k == CHOOSE x \in keys : TRUE
         IN  SetAll(cls, SetAttr(cls, d, k, kwargs[k]), kwargs, keys \ {k})

\* Item.__init__, second loop: the defaults of the fields from the i-th on
RECURSIVE ApplyDefaults(_, _, _)
ApplyDefaults(cls, d, i) ==
    IF i > Len(cls.fields) THEN d
    ELSE LET obj == cls.fields[i]
         IN  IF obj.default # PyNone /\ ~Has(cls, d, obj.name)
             THEN ApplyDefaults(cls, SetAttr(cls, d, obj.name, obj.default), i + 1)
             ELSE ApplyDefaults(cls, d, i + 1)

EmptyDict == <<>>

\* an __init__ without its second loop
ItemInit_NoDefaults(cls, kwargs) == SetAll(cls, EmptyDict, kwargs, DOMAIN kwargs)

\* Item.__init__ with keyword arguments: the __dict__ of the new instance
ItemInit(cls, kwargs) == ApplyDefaults(cls, SetAll(cls, EmptyDict, kwargs, DOMAIN kwargs), 1)

\* Item.validate from the i-th field on: [exc, ret, dict], dict being the __dict__ it leaves
RECURSIVE ValidateFrom(_, _, _)
ValidateFrom(cls, d, i) ==
    IF i > Len(cls.fields) THEN [exc |-> "", ret |-> PyNone, dict |-> d, at |-> 0]
    ELSE LET obj == cls.fields[i]
             k == obj.name
         IN  IF Has(cls, d, k)
             THEN LET r == FieldValidate(obj, GetAttr(cls, d, k).ret)
                  IN  IF r.exc # ""
                      THEN [exc |-> r.exc, ret |-> r.ret, dict |-> d, at |-> i]
                      ELSE ValidateFrom(cls, SetAttr(cls, d, k, r.ret), i + 1)
             ELSE IF ~obj.null
             THEN [exc |-> "FieldValidationError",
                   ret |-> [fmt |-> "have no value yet", args |-> <<cls.name, k>>],
                   dict |-> d, at |-> i]
             ELSE ValidateFrom(cls, d, i + 1)

\* a validate() that takes every field for nullable
ItemValidate_AllNullable(cls, d) ==
    ValidateFrom([cls EXCEPT !.fields = [i \in 1..Len(cls.fields) |-> [cls.fields[i] EXCEPT !.null = TRUE]]],
                 d, 1)

\* a validate() that goes through the fields from the last declared to the first
ItemValidate_LastFirst(cls, d) ==
    LET n == Len(cls.fields)
        r == ValidateFrom([cls EXCEPT !.fields = [i \in 1..n |-> cls.fields[n + 1 - i]]], d, 1)
    IN  [r EXCEPT !.at = IF r.at = 0 THEN 0 ELSE n + 1 - r.at]

\* a validate() that puts the values back when it fails
ItemValidate_Atomic(cls, d) ==
    LET r == ValidateFrom(cls, d, 1)
    IN  IF r.exc # "" THEN [r EXCEPT !.dict = d] ELSE r

\* Item.validate()
ItemValidate(cls, d) == ValidateFrom(cls, d, 1)

(***************************************************************************)
(* The inputs of the model: two record types, the values a caller stores   *)
(* and the keys a caller uses.                                             *)
(***************************************************************************)
n_star == <<"s", "t", "a", "r">>

n_title == <<"t", "i", "t", "l", "e">>

n_fork == <<"f", "o", "r", "k">>

n_size == <<"s", "i", "z", "e">>

n_body == <<"b", "o", "d", "y">>

n_lang == <<"l", "a", "n", "g">>

n_url == <<"u", "r", "l">>

s_128 == PyStrVal(<<"1", "2", "8">>)

s_abc == PyStrVal(<<"a", "b", "c">>)

s_en == PyStrVal(<<"e", "n">>)

i_128 == PyIntVal(128)

\* class Repo(Item): star = IntField(); title = StringField(null=True); fork = IntField(default=0)
Repo ==
    [name |-> <<"R", "e", "p", "o">>,
     fields |-> <<IntField(n_star, FALSE, PyNone),
                  StringField(n_title, TRUE, PyNone),
                  IntField(n_fork, FALSE, PyIntVal(0))>>]

\* class Page(Item): lang = StringField(null=True, default='en'); size = FloatField(); body = BytesField()
Page ==
    [name |-> <<"P", "a", "g", "e">>,
     fields |-> <<StringField(n_lang, TRUE, s_en),
                  FloatField(n_size, FALSE, PyNone),
                  BytesField(n_body, FALSE, PyNone)>>]

Schemas == {Repo, Page}

\* the values a caller stores: a numeric string, another string, an int, None, float('inf')
Values == {s_128, s_abc, i_128, PyNone, PyInf(1)}

FieldNames(cls) == {cls.fields[i].name : i \in 1..Len(cls.fields)}

\* keyword arguments are identifiers: the declared names and one undeclared name
KwKeys(cls) == FieldNames(cls) \cup {n_url}

KwArgs(cls) == UNION {[K -> Values] : K \in SUBSET KwKeys(cls)}

\* mapping keys are any strings: also the storage name of the first field
MapKeys(cls) == KwKeys(cls) \cup {storage_name(cls.fields[1])}

\* the record of a call
Call(op, arg, r, before, again) ==
    [op |-> op, arg |-> arg, exc |-> r.exc, ret |-> r.ret, before |-> before, again |-> again]

(***************************************************************************)
(* Documents.  The query languages are evaluated by lxml, re and jpath; a  *)
(* document of the model says what each finds in it: whether its bytes     *)
(* decode strictly, whether lxml parses its text, what JSON it holds, and  *)
(* the ordered raw matches of the pattern of each language.                *)
(***************************************************************************)
s_fallback == PyStrVal(<<"f", "a", "l", "l", "b", "a", "c", "k">>)

s_ant_nest == PyStrVal(<<"A", "n", "t", " ", "N", "e", "s", "t">>)

s_other_title == PyStrVal(<<"O", "t", "h", "e", "r", " ", "T", "i", "t", "l", "e">>)

s_stars == PyStrVal(<<"S", "t", "a", "r", "s", ":", " ">>)

s_forks == PyStrVal(<<"F", "o", "r", "k", "s", ":", " ", "3">>)

Docs ==
    [agree |-> [decodable |-> TRUE, html |-> TRUE, json |-> "object",
                xpath |-> <<s_128>>, regex |-> <<s_128>>, jpath |-> <<PyNone>>],
     fallback |-> [decodable |-> TRUE, html |-> TRUE, json |-> "object",
                   xpath |-> <<>>, regex |-> <<s_fallback>>, jpath |-> <<i_128>>],
     conflict |-> [decodable |-> TRUE, html |-> TRUE, json |-> "object",
                   xpath |-> <<s_ant_nest, s_abc>>, regex |-> <<s_other_title>>,
                   jpath |-> <<s_stars, PyIntVal(42), s_forks>>],
     empty |-> [decodable |-> TRUE, html |-> TRUE, json |-> "null",
                xpath |-> <<>>, regex |-> <<>>, jpath |-> <<>>],
     binary |-> [decodable |-> FALSE, html |-> TRUE, json |-> "object",
                 xpath |-> <<s_128>>, regex |-> <<s_128>>, jpath |-> <<i_128>>],
     blank |-> [decodable |-> TRUE, html |-> FALSE, json |-> "bad",
                xpath |-> <<>>, regex |-> <<>>, jpath |-> <<>>]]

DocIds == DOMAIN Docs

\* data.xpath(pattern), re.findall(pattern, data), jpath.get_all(pattern, data)
Matches(_type, pattern, data) ==
    CASE _type = "xpath" -> Docs[data].xpath
      [] _type = "regex" -> Docs[data].regex
      [] _type = "jpath" -> Docs[data].jpath

(***************************************************************************)
(* Response: content says whether the body has been read; text, json and   *)
(* html are the caches _text, _json and _html_element, "None" until set.   *)
(* A view call returns [exc, ret, resp]: resp is the response it leaves.   *)
(***************************************************************************)
NewResponse(doc) == [doc |-> doc, content |-> FALSE, text |-> "None", json |-> "None", html |-> "None"]

\* no response has been fetched yet
NoResponse == NewResponse("none")

\* Response.get_text(errors=errors)
get_text(resp, errors) ==
    IF ~resp.content THEN [exc |-> "ValueError", ret |-> "Read stream first", resp |-> resp]
    ELSE IF resp.text # "None" THEN [exc |-> "", ret |-> resp.text, resp |-> resp]
    ELSE IF Docs[resp.doc].decodable
    THEN [exc |-> "", ret |-> "exact", resp |-> [resp EXCEPT !.text = "exact"]]
    ELSE IF errors = "ignore"
    THEN [exc |-> "", ret |-> "lossy", resp |-> [resp EXCEPT !.text = "lossy"]]
    ELSE [exc |-> "UnicodeDecodeError", ret |-> "codec can't decode", resp |-> resp]

\* Response.simple_text
simple_text(resp) == get_text(resp, "ignore")

\* Response.get_json(): loads() gives None for the JSON document null
get_json(resp) ==
    LET t == IF resp.text = "None" THEN get_text(resp, "strict")
             ELSE [exc |-> "", ret |-> resp.text, resp |-> resp]
    IN  IF t.exc # "" THEN t
        ELSE IF t.resp.json # "None" THEN [exc |-> "", ret |-> t.resp.json, resp |-> t.resp]
        ELSE IF Docs[resp.doc].json = "bad"
        THEN [exc |-> "JSONDecodeError", ret |-> "Expecting value", resp |-> t.resp]
        ELSE IF Docs[resp.doc].json = "null"
        THEN [exc |-> "", ret |-> "None", resp |-> t.resp]
        ELSE [exc |-> "", ret |-> "value", resp |-> [t.resp EXCEPT !.json = "value"]]

\* Response.simple_json
simple_json(resp) == get_json(resp)

\* Response.html_element
html_element(resp) ==
    IF resp.html # "None" THEN [exc |-> "", ret |-> resp.html, resp |-> resp]
    ELSE LET t == simple_text(resp)
         IN  IF t.exc # "" THEN t
             ELSE IF ~Docs[resp.doc].html
             THEN [exc |-> "ParserError", ret |-> "Document is empty", resp |-> t.resp]
             ELSE [exc |-> "", ret |-> "tree", resp |-> [t.resp EXCEPT !.html = "tree"]]

(***************************************************************************)
(* ItemExtractor.  path is a sequence of [key, rules] in the order the     *)
(* keys were first added; a rule is <<path_type, pattern, extract_type>>.  *)
(***************************************************************************)
extract_with_take_first == "take_first"

extract_with_join_all == "join_all"

extract_with_do_nothing == "do_nothing"

ExtractTypes == {extract_with_take_first, extract_with_join_all, extract_with_do_nothing}

\* the one pattern the documents of the model answer for
Patterns == {"p"}

KeyIndex(pth, key) == {i \in 1..Len(pth) : pth[i].key = key}

\* self.path[key].append(rule), path being a defaultdict(list)
AppendRule(pth, key, rule) ==
    IF KeyIndex(pth, key) = {} THEN Append(pth, [key |-> key, rules |-> <<rule>>])
    ELSE [i \in 1..Len(pth) |->
            IF pth[i].key = key THEN [pth[i] EXCEPT !.rules = Append(@, rule)] ELSE pth[i]]

\* a join that does not filter: what is not a str is joined as "?"
RECURSIVE JoinStrings_NoFilter(_)
JoinStrings_NoFilter(matches) ==
    IF matches = <<>> THEN <<>>
    ELSE (IF IsStr(Head(matches)) THEN Val(Head(matches)) ELSE <<"?">>)
             \o JoinStrings_NoFilter(Tail(matches))

\* ''.join(the matches that are str)
RECURSIVE JoinStrings(_)
JoinStrings(matches) ==
    IF matches = <<>> THEN <<>>
    ELSE (IF IsStr(Head(matches)) THEN Val(Head(matches)) ELSE <<>>) \o JoinStrings(Tail(matches))

\* an extract_value whose take-first answers None when nothing matches
extract_value_NoneOnMiss(_type, pattern, data, extract_type) ==
    IF _type \notin {"xpath", "regex", "jpath"} THEN Raise("ValueError", "The type not support")
    ELSE LET found == Matches(_type, pattern, data)
         IN  IF extract_type = extract_with_take_first
             THEN IF found = <<>> THEN Ok(PyNone) ELSE Ok(found[1])
             ELSE IF extract_type = extract_with_join_all
             THEN Ok(PyStrVal(JoinStrings(found)))
             ELSE Ok(PyList(found))

\* extract_value, "handle by extract type": found is the list the query returned
handle_by_extract_type(found, extract_type) ==
    IF extract_type = extract_with_take_first
    THEN IF found = <<>> THEN Raise("IndexError", "list index out of range")
         ELSE Ok(found[1])
    ELSE IF extract_type = extract_with_join_all
    THEN Ok(PyStrVal(JoinStrings(found)))
    ELSE Ok(PyList(found))

\* the query languages extract_value knows
QueryTypes == {"xpath", "regex", "jpath"}

\* an extract_value that takes every unknown language for jpath
extract_value_ElseJpath(_type, pattern, data, extract_type) ==
    handle_by_extract_type(Matches(IF _type \in QueryTypes THEN _type ELSE "jpath", pattern, data),
                           extract_type)

\* ItemExtractor.extract_value
extract_value(_type, pattern, data, extract_type) ==
    IF _type \notin QueryTypes
    THEN Raise("ValueError", <<"The type: {:s} not support", _type>>)
    ELSE handle_by_extract_type(Matches(_type, pattern, data), extract_type)

\* CustomNoneType(): the working value before any rule has given a result
Unset == <<"CustomNoneType", 0>>

IsUnset(value) == Tag(value) = "CustomNoneType"

\* extract, "get data by search type"
ViewFor(path_type, resp) ==
    IF path_type = "xpath" THEN html_element(resp)
    ELSE IF path_type = "regex" THEN simple_text(resp)
    ELSE simple_json(resp)

\* a check that takes any second result for a conflict
Conflicts_AnySecond(value, found) == ~IsUnset(value)

\* extract, "check multiple path`s result"
Conflicts(value, found) == ~IsUnset(value) /\ ~PyEq(value, found)

\* ItemExtractError('Match different result: {:s} and {:s} for key: {:s}'.format(...))
ConflictError(value, found, key) ==
    IF Format_s(value).exc # "" THEN Format_s(value)
    ELSE IF Format_s(found).exc # "" THEN Format_s(found)
    ELSE Raise("ItemExtractError",
               [fmt |-> "Match different result", args |-> <<Val(value), Val(found), key>>])

\* a loop over the rules that takes a view that cannot be produced for "no match"
RECURSIVE ExtractKey_SkipOnViewError(_, _, _, _, _)
ExtractKey_SkipOnViewError(resp, key, rules, i, value) ==
    IF i > Len(rules) THEN [exc |-> "", ret |-> PyNone, value |-> value, resp |-> resp]
    ELSE LET path_type == rules[i][1]
             data == ViewFor(path_type, resp)
         IN  IF data.exc # ""
             THEN ExtractKey_SkipOnViewError(data.resp, key, rules, i + 1, value)
             ELSE LET r == extract_value(path_type, rules[i][2], resp.doc, rules[i][3])
                  IN  IF r.exc = "IndexError"
                      THEN ExtractKey_SkipOnViewError(data.resp, key, rules, i + 1, value)
                      ELSE IF r.exc # ""
                      THEN [exc |-> r.exc, ret |-> r.ret, value |-> value, resp |-> data.resp]
                      ELSE IF Conflicts(value, r.ret)
                      THEN LET e == ConflictError(value, r.ret, key)
                           IN  [exc |-> e.exc, ret |-> e.ret, value |-> value, resp |-> data.resp]
                      ELSE ExtractKey_SkipOnViewError(data.resp, key, rules, i + 1, r.ret)

\* the rules of one key from the i-th on: [exc, ret, value, resp]
RECURSIVE ExtractKey(_, _, _, _, _)
ExtractKey(resp, key, rules, i, value) ==
    IF i > Len(rules) THEN [exc |-> "", ret |-> PyNone, value |-> value, resp |-> resp]
    ELSE LET path_type == rules[i][1]
             data == ViewFor(path_type, resp)
         IN  IF data.exc # ""
             THEN [exc |-> data.exc, ret |-> data.ret, value |-> value, resp |-> data.resp]
             ELSE LET r == extract_value(path_type, rules[i][2], resp.doc, rules[i][3])
                  IN  IF r.exc = "IndexError" THEN ExtractKey(data.resp, key, rules, i + 1, value)
                      ELSE IF r.exc # ""
                      THEN [exc |-> r.exc, ret |-> r.ret, value |-> value, resp |-> data.resp]
                      ELSE IF Conflicts(value, r.ret)
                      THEN LET e == ConflictError(value, r.ret, key)
                           IN  [exc |-> e.exc, ret |-> e.ret, value |-> value, resp |-> data.resp]
                      ELSE ExtractKey(data.resp, key, rules, i + 1, r.ret)

\* an assignment that does not look at the sentinel
AssignField_Always(cls, d, key, value) ==
    SetItemDict(cls, d, key, IF IsUnset(value) THEN PyNone ELSE value)

\* extract: if not isinstance(value, CustomNoneType): item[key] = value
AssignField(cls, d, key, value) ==
    IF IsUnset(value) THEN d ELSE SetItemDict(cls, d, key, value)

\* the keys of the rule set from the j-th on: [exc, ret, item, resp]
RECURSIVE ExtractFrom(_, _, _, _, _)
ExtractFrom(cls, pth, resp, d, j) ==
    IF j > Len(pth) THEN [exc |-> "", ret |-> PyNone, item |-> d, resp |-> resp]
    ELSE LET r == ExtractKey(resp, pth[j].key, pth[j].rules, 1, Unset)
         IN  IF r.exc # "" THEN [exc |-> r.exc, ret |-> r.ret, item |-> d, resp |-> r.resp]
             ELSE ExtractFrom(cls, pth, r.resp, AssignField(cls, d, pth[j].key, r.value), j + 1)

\* ItemExtractor.extract(response)
extract(cls, pth, resp) == ExtractFrom(cls, pth, resp, ItemInit(cls, EmptyDict), 1)

(***************************************************************************)
(* The record instance: Init is the state after Item.__init__ with keyword arguments.   *)
(***************************************************************************)
Init ==
    /\ schema \in Schemas
    /\ \E kwargs \in KwArgs(schema) :
          /\ item = ItemInit(schema, kwargs)
          /\ last = Call("__init__", kwargs, Ok(PyNone), EmptyDict, FALSE)
    /\ path = <<>>
    /\ response = NoResponse

\* item[k] = v
SetItem(k, v) ==
    /\ item' = SetItemDict(schema, item, k, v)
    /\ last' = Call("__setitem__", <<k, v>>, Ok(PyNone), EmptyDict, FALSE)
    /\ UNCHANGED <<schema, path, response>>

\* item[k]
GetItem(k) ==
    /\ last' = Call("__getitem__", k, GetItemOf(schema, item, k), EmptyDict, FALSE)
    /\ UNCHANGED <<schema, item, path, response>>

\* del item[k]
DelItem(k) ==
    LET r == DelItemOf(schema, item, k)
    IN  /\ item' = IF r.exc = "" THEN r.ret ELSE item
        /\ last' = Call("__delitem__", k, IF r.exc = "" THEN Ok(PyNone) ELSE r, EmptyDict, FALSE)
        /\ UNCHANGED <<schema, path, response>>

\* item.validate(); again: the call before was a validate() that succeeded
Validate ==
    LET r == ItemValidate(schema, item)
    IN  /\ item' = r.dict
        /\ last' = [Call("validate", r.at, r, item, last.op = "validate" /\ last.exc = "")
                        EXCEPT !.ret = r.ret]
        /\ UNCHANGED <<schema, path, response>>

Next ==
    \/ \E k \in MapKeys(schema), v \in Values : SetItem(k, v)
    \/ \E k \in MapKeys(schema) : GetItem(k)
    \/ \E k \in MapKeys(schema) : DelItem(k)
    \/ Validate

Spec == Init /\ [][Next]_vars

(***************************************************************************)
(* The extractor of the record type Repo: the rule set is declared first,  *)
(* then a response is fetched, read and extracted from, and the record     *)
(* extract() returns is validated.                                         *)
(***************************************************************************)
\* the most rules a rule set of the model holds
MaxRules == 2

RECURSIVE RuleCount(_)
RuleCount(pth) == IF pth = <<>> THEN 0 ELSE Len(Head(pth).rules) + RuleCount(Tail(pth))

\* the keys of the rule sets: the declared fields
RuleKeys(cls) == FieldNames(cls)

InitExtract ==
    /\ schema = Repo
    /\ item = EmptyDict
    /\ path = <<>>
    /\ response = NoResponse
    /\ last = Call("ItemExtractor.__init__", schema.name, Ok(PyNone), EmptyDict, FALSE)

AddRule(op, key, rule) ==
    /\ response = NoResponse
    /\ RuleCount(path) < MaxRules
    /\ path' = AppendRule(path, key, rule)
    /\ last' = Call(op, <<key, rule>>, Ok(PyNone), EmptyDict, FALSE)
    /\ UNCHANGED <<schema, item, response>>

\* extractor.add_xpath(key, xpath, extract_type)
AddXpath(key, xpath, extract_type) == AddRule("add_xpath", key, <<"xpath", xpath, extract_type>>)

\* extractor.add_regex(key, pattern, extract_type)
AddRegex(key, pattern, extract_type) == AddRule("add_regex", key, <<"regex", pattern, extract_type>>)

\* extractor.add_jpath(key, jpath, extract_type)
AddJpath(key, jpath, extract_type) == AddRule("add_jpath", key, <<"jpath", jpath, extract_type>>)

\* a response arrives for one of the documents, its body not read yet
Fetch(doc) ==
    /\ response = NoResponse
    /\ response' = NewResponse(doc)
    /\ last' = Call("Response.__init__", doc, Ok(PyNone), EmptyDict, FALSE)
    /\ UNCHANGED <<schema, item, path>>

\* the body is read: _content is set
Read ==
    /\ response # NoResponse
    /\ ~response.content
    /\ response' = [response EXCEPT !.content = TRUE]
    /\ last' = Call("read", response.doc, Ok(PyNone), EmptyDict, FALSE)
    /\ UNCHANGED <<schema, item, path>>

\* an extract() that uses up the rules of the first key of the rule set
Extract_ConsumesRules ==
    /\ response # NoResponse
    /\ LET r == extract(schema, path, response)
       IN  /\ item' = IF r.exc = "" THEN r.item ELSE item
           /\ response' = r.resp
           /\ last' = Call("extract", response.doc, r, response, FALSE)
    /\ path' = IF path = <<>> THEN path ELSE Tail(path)
    /\ UNCHANGED schema

\* item = extractor.extract(response); before: the response as it was at the call
Extract ==
    /\ response # NoResponse
    /\ LET r == extract(schema, path, response)
       IN  /\ item' = IF r.exc = "" THEN r.item ELSE item
           /\ response' = r.resp
           /\ last' = Call("extract", response.doc, r, response, FALSE)
    /\ UNCHANGED <<schema, path>>

\* item.validate() on the record extract() has just returned
ValidateExtracted == last.op = "extract" /\ last.exc = "" /\ Validate

NextExtract ==
    \/ \E key \in RuleKeys(schema), p \in Patterns, t \in ExtractTypes : AddXpath(key, p, t)
    \/ \E key \in RuleKeys(schema), p \in Patterns, t \in ExtractTypes : AddRegex(key, p, t)
    \/ \E key \in RuleKeys(schema), p \in Patterns, t \in ExtractTypes : AddJpath(key, p, t)
    \/ \E doc \in DocIds : Fetch(doc)
    \/ Read
    \/ Extract
    \/ ValidateExtracted

ExtractSpec == InitExtract /\ [][NextExtract]_vars

(***************************************************************************)
(* The shadow-name functions of IntField, applied to names built from      *)
(* pieces among which are the reserved prefix and its two halves.          *)
(***************************************************************************)
MaxPieces == 3

Pieces ==
    {ShadowNamePrefix, <<"a">>, <<"_">>, <<"_", "_", "f", "i", "e">>, <<"l", "d", "#">>}

RECURSIVE NamesOf(_)
NamesOf(n) ==
    IF n = 0 THEN {<<>>}
    ELSE NamesOf(n - 1) \cup {name \o piece : name \in NamesOf(n - 1), piece \in Pieces}

Names == NamesOf(MaxPieces)

InitShadow ==
    /\ schema = Repo
    /\ item = EmptyDict
    /\ path = <<>>
    /\ response = NoResponse
    /\ last = Call("IntField", <<>>, Ok(<<>>), <<>>, FALSE)

\* IntField.make_shadow_name(name)
MakeShadowName(name) ==
    /\ last' = Call("make_shadow_name", name, make_shadow_name(name), name, FALSE)
    /\ UNCHANGED <<schema, item, path, response>>

\* IntField.get_name_from_shadow(IntField.make_shadow_name(name))
GetNameFromShadow ==
    /\ last.op = "make_shadow_name" /\ last.exc = ""
    /\ last' = Call("get_name_from_shadow", last.ret, Ok(get_name_from_shadow(last.ret)),
                    last.arg, FALSE)
    /\ UNCHANGED <<schema, item, path, response>>

\* IntField.is_shadow_name(name), of a name and of the shadow name made from it
IsShadowName ==
    /\ last.op = "make_shadow_name"
    /\ \E name \in {last.arg} \cup (IF last.exc = "" THEN {last.ret} ELSE {}) :
          last' = Call("is_shadow_name", name, Ok(is_shadow_name(name)), last.arg, FALSE)
    /\ UNCHANGED <<schema, item, path, response>>

NextShadow ==
    \/ \E name \in Names : MakeShadowName(name)
    \/ GetNameFromShadow
    \/ IsShadowName

ShadowSpec == InitShadow /\ [][NextShadow]_vars

(***************************************************************************)
(* Single instructions: extract_value applied to the documents with every  *)
(* query-language tag, an unknown one among them; its handling by extract  *)
(* type applied to every short list of raw matches; and extract() with a   *)
(* rule set of one instruction, put into extractor.path directly.          *)
(***************************************************************************)
\* the longest list of raw matches
MaxMatches == 3

\* what a match can be: two strings, a number, null
Atoms == {s_stars, s_forks, PyIntVal(42), PyNone}

RECURSIVE MatchListsOf(_)
MatchListsOf(n) ==
    IF n = 0 THEN {<<>>}
    ELSE MatchListsOf(n - 1) \cup {Append(found, x) : found \in MatchListsOf(n - 1), x \in Atoms}

MatchLists == MatchListsOf(MaxMatches)

\* a tag extract_value does not know
PathTypes == QueryTypes \cup {"css"}

InitRule ==
    /\ schema = Repo
    /\ item = EmptyDict
    /\ path = <<>>
    /\ response = NoResponse
    /\ last = Call("ItemExtractor.__init__", schema.name, Ok(PyNone), EmptyDict, FALSE)

\* extract_value from the query's result on: the list found, handled by extract_type
HandleMatches(found, extract_type) ==
    /\ last' = Call("handle_by_extract_type", <<found, extract_type>>,
                    handle_by_extract_type(found, extract_type), EmptyDict, FALSE)
    /\ UNCHANGED <<schema, item, path, response>>

\* ItemExtractor.extract_value(_type, pattern, data, extract_type)
ExtractValue(_type, pattern, data, extract_type) ==
    /\ last' = Call("extract_value", <<_type, pattern, data, extract_type>>,
                    extract_value(_type, pattern, data, extract_type), EmptyDict, FALSE)
    /\ UNCHANGED <<schema, item, path, response>>

\* extractor = ItemExtractor(Repo); extractor.path[key] = [rule];
\* extractor.extract(response), on a response of its own whose body is read or not.
\* ret is the record returned
ExtractOne(key, rule, doc, content) ==
    LET resp == [NewResponse(doc) EXCEPT !.content = content]
        r == extract(schema, AppendRule(<<>>, key, rule), resp)
    IN  /\ last' = Call("extract", <<key, rule, doc, content>>,
                        IF r.exc = "" THEN Ok(r.item) ELSE r, resp, FALSE)
        /\ UNCHANGED <<schema, item, path, response>>

NextRule ==
    \/ \E found \in MatchLists, t \in ExtractTypes : HandleMatches(found, t)
    \/ \E _type \in PathTypes, p \in Patterns, data \in DocIds, t \in ExtractTypes :
          ExtractValue(_type, p, data, t)
    \/ \E key \in RuleKeys(schema), _type \in PathTypes, p \in Patterns, t \in ExtractTypes,
          doc \in DocIds, content \in BOOLEAN :
          ExtractOne(key, <<_type, p, t>>, doc, content)

RuleSpec == InitRule /\ [][NextRule]_vars

(***************************************************************************)
(* The mapping of a record type with one field, with keys of every sort:   *)
(* the field, an undeclared name, that name behind the shadow prefix, the  *)
(* storage name of the field, and the name of a class attribute.           *)
(***************************************************************************)
\* class Link(Item): title = StringField()
Link ==
    [name |-> <<"L", "i", "n", "k">>,
     fields |-> <<StringField(n_title, FALSE, PyNone)>>]

n_is_validating == <<"_", "i", "s", "_", "v", "a", "l", "i", "d", "a", "t", "i", "n", "g">>

LinkKeys ==
    {n_title, n_url, ShadowNamePrefix \o n_url, storage_name(Link.fields[1]), n_is_validating}

LinkValues == {s_abc, i_128}

InitMap ==
    /\ schema = Link
    /\ \E kwargs \in UNION {[K -> LinkValues] : K \in SUBSET {n_title, n_url}} :
          /\ item = ItemInit(schema, kwargs)
          /\ last = Call("__init__", kwargs, Ok(PyNone), EmptyDict, FALSE)
    /\ path = <<>>
    /\ response = NoResponse

\* len(item) and list(item): ret is <<the length, the number of keys yielded>>
LenAndIter ==
    /\ last' = Call("__len__", <<>>, Ok(<<LenOf(item), Cardinality(IterKeys(item))>>),
                    EmptyDict, FALSE)
    /\ UNCHANGED <<schema, item, path, response>>

NextMap ==
    \/ \E k \in LinkKeys, v \in LinkValues : SetItem(k, v)
    \/ \E k \in LinkKeys : GetItem(k)
    \/ \E k \in LinkKeys : DelItem(k)
    \/ LenAndIter

MapSpec == InitMap /\ [][NextMap]_vars

(***************************************************************************)
(* The views of a response, accessed directly.  For a view access, arg is  *)
(* <<the argument, what the call computed>> and again says that the call   *)
(* before it was an access of the same view that succeeded.                *)
(***************************************************************************)
\* get_text calls decode: lines 34-37
text_computes(resp, errors) == IF resp.content /\ resp.text = "None" THEN {"decode"} ELSE {}

\* get_json calls get_text when no text is cached, and loads when no JSON is: lines 46-51
json_computes(resp) ==
    LET t == IF resp.text = "None" THEN get_text(resp, "strict")
             ELSE [exc |-> "", ret |-> resp.text, resp |-> resp]
    IN  (IF resp.text = "None" THEN text_computes(resp, "strict") ELSE {})
            \cup (IF t.exc = "" /\ t.resp.json = "None" THEN {"loads"} ELSE {})

\* html_element calls simple_text and html.fromstring when no tree is cached: lines 60-61
html_computes(resp) ==
    IF resp.html # "None" THEN {}
    ELSE text_computes(resp, "ignore")
             \cup (IF simple_text(resp).exc = "" THEN {"fromstring"} ELSE {})

InitResponse ==
    /\ schema = Repo
    /\ item = EmptyDict
    /\ path = <<>>
    /\ \E doc \in DocIds :
          /\ response = NewResponse(doc)
          /\ last = Call("Response.__init__", doc, Ok(PyNone), EmptyDict, FALSE)

ViewCall(op, arg, r, computes) ==
    /\ response' = r.resp
    /\ last' = Call(op, <<arg, computes>>, r, response, last.op = op /\ last.exc = "")
    /\ UNCHANGED <<schema, item, path>>

\* response.get_text(errors=errors)
GetText(errors) ==
    ViewCall("get_text", errors, get_text(response, errors), text_computes(response, errors))

\* response.get_json()
GetJson == ViewCall("get_json", "", get_json(response), json_computes(response))

\* response.html_element
HtmlElement == ViewCall("html_element", "", html_element(response), html_computes(response))

NextResponse ==
    \/ Read
    \/ \E errors \in {"strict", "ignore"} : GetText(errors)
    \/ GetJson
    \/ HtmlElement

ResponseSpec == InitResponse /\ [][NextResponse]_vars

(***************************************************************************)
(* Properties of the record instance, under Spec                           *)
(***************************************************************************)
Fields == schema.fields

\* the value item[k] of the __dict__ d, when k is set
ValueOf(d, k) == GetItemOf(schema, d, k).ret

\* non-nullable and without default
RequiredField(f) == ~f.null /\ f.default = PyNone

\* the i-th field stops validate() on the __dict__ d: missing, or not convertible
Offends(d, i) ==
    IF Has(schema, d, Fields[i].name)
    THEN Convert(Fields[i].type, ValueOf(d, Fields[i].name)).exc # ""
    ELSE ~Fields[i].null

NamesField(call, i) ==
    /\ call.exc = "FieldValidationError"
    /\ call.ret.fmt = "have no value yet"
    /\ call.ret.args = <<schema.name, Fields[i].name>>

\* an absent nullable field is skipped: no error is raised at it and it stays absent
NullableSkipped ==
    \A i \in 1..Len(Fields) :
        (Fields[i].null /\ ~Has(schema, last.before, Fields[i].name)) =>
            /\ last.arg # i
            /\ ~Has(schema, item, Fields[i].name)

\* C5 as stated: validate() on an instance on which a required field is not set fails
\* with a FieldValidationError whose message names the record type and that field, and
\* an absent nullable field is skipped silently.
C5_RequiredFieldNamed ==
    last.op = "validate" =>
        /\ \A i \in 1..Len(Fields) :
              (RequiredField(Fields[i]) /\ ~Has(schema, last.before, Fields[i].name)) =>
                  NamesField(last, i)
        /\ NullableSkipped

\* C5, amended: validate() on an instance on which a required field is not set fails, at
\* that field or at one declared before it; when no field declared before it is itself
\* missing or not convertible, the error is a FieldValidationError whose message names
\* the record type and that field.  An absent nullable field is skipped silently.
C5_RequiredFieldFirstNamed ==
    last.op = "validate" =>
        /\ \A i \in 1..Len(Fields) :
              (RequiredField(Fields[i]) /\ ~Has(schema, last.before, Fields[i].name)) =>
                  /\ last.exc # ""
                  /\ last.arg \in 1..i
                  /\ (\A j \in 1..(i - 1) : ~Offends(last.before, j)) =>
                        (last.arg = i /\ NamesField(last, i))
        /\ NullableSkipped

\* validate() has failed at a required field that is not set, after a nullable field
\* that is not set either
C5_Witness ==
    /\ last.op = "validate"
    /\ \E i \in 1..Len(Fields) :
          /\ RequiredField(Fields[i]) /\ ~Has(schema, last.before, Fields[i].name)
          /\ NamesField(last, i)
          /\ \E j \in 1..(i - 1) : Fields[j].null /\ ~Has(schema, last.before, Fields[j].name)

\* C6: right after construction every declared field holds the caller's value if the
\* caller supplied one; otherwise it holds its default if it has one, and is absent
\* if it has none.
C6_DefaultsAtConstruction ==
    last.op = "__init__" =>
        \A i \in 1..Len(Fields) :
            LET k == Fields[i].name
            IN  IF k \in DOMAIN last.arg
                THEN Has(schema, item, k) /\ ValueOf(item, k) = last.arg[k]
                ELSE IF Fields[i].default # PyNone
                THEN Has(schema, item, k) /\ ValueOf(item, k) = Fields[i].default
                ELSE ~Has(schema, item, k)

\* an instance constructed with a value for one field and none for a field with a default
C6_Witness ==
    /\ last.op = "__init__"
    /\ \E i, j \in 1..Len(Fields) :
          /\ Fields[i].default # PyNone /\ Fields[i].name \notin DOMAIN last.arg
          /\ ValueOf(item, Fields[i].name) = Fields[i].default
          /\ Fields[j].default = PyNone /\ Fields[j].name \in DOMAIN last.arg

\* C7 as stated: a validate() that succeeds has replaced the value of every declared
\* field that was present by its conversion; when the conversion of a present value is
\* impossible, validate() fails with a FieldValidationError and the offending field
\* keeps its raw value (the default is not put in its place).
C7_CoercionOrFieldValidationError ==
    last.op = "validate" =>
        \A i \in 1..Len(Fields) :
            LET k == Fields[i].name
            IN  Has(schema, last.before, k) =>
                    LET r == Convert(Fields[i].type, ValueOf(last.before, k))
                    IN  /\ (last.exc = "") => (r.exc = "" /\ ValueOf(item, k) = r.ret)
                        /\ (r.exc # "") =>
                              /\ last.exc = "FieldValidationError"
                              /\ Has(schema, item, k)
                              /\ ValueOf(item, k) = ValueOf(last.before, k)

\* C8: a validate() that follows a validate() that succeeded raises nothing and leaves
\* the instance as it was.
C8_ValidateIdempotent ==
    (last.op = "validate" /\ last.again) => (last.exc = "" /\ item = last.before)

\* a second validate() on an instance that holds all its declared fields
C8_Witness ==
    /\ last.op = "validate" /\ last.again /\ last.exc = ""
    /\ \A i \in 1..Len(Fields) : Has(schema, item, Fields[i].name)

SameResult(r1, r2) == r1.exc = r2.exc /\ (r1.exc = "" => r1.ret = r2.ret)

\* the key of a __setitem__ or __delitem__ call
KeyOf(call) == IF call.op = "__setitem__" THEN call.arg[1] ELSE call.arg

\* C10 as stated: writing or deleting one logical name never changes what a declared
\* field of a different logical name holds.
C10_NoShadowAliasing ==
    [][last'.op \in {"__setitem__", "__delitem__"} =>
          \A k \in FieldNames(schema) :
              k # KeyOf(last') =>
                  SameResult(GetItemOf(schema, item', k), GetItemOf(schema, item, k))]_vars

\* the first declared field that stops validate() on the __dict__ d, 0 if none does
FirstOffender(d) ==
    IF \E i \in 1..Len(Fields) : Offends(d, i)
    THEN CHOOSE i \in 1..Len(Fields) : Offends(d, i) /\ \A j \in 1..(i - 1) : ~Offends(d, j)
    ELSE 0

\* the error of validate() is the one of the i-th field: that it has no value, or
\* the error of its conversion
ErrorOfField(call, i) ==
    IF ~Has(schema, call.before, Fields[i].name) THEN NamesField(call, i)
    ELSE LET r == Convert(Fields[i].type, ValueOf(call.before, Fields[i].name))
         IN  \/ call.exc = r.exc /\ call.ret = r.ret
             \/ /\ call.exc = "FieldValidationError"
                /\ call.ret.fmt = "str(e)" /\ call.ret.args = <<r.exc, r.ret>>

\* C13: validate() goes through the declared fields in declaration order and stops at
\* the first that offends: it fails exactly when some field offends, and the error is
\* the one of the field declared first among the offending ones.
C13_FirstOffenderReported ==
    last.op = "validate" =>
        LET i == FirstOffender(last.before)
        IN  IF i = 0 THEN last.exc = ""
            ELSE last.exc # "" /\ last.arg = i /\ ErrorOfField(last, i)

\* validate() has failed on an instance with two offending fields of different sort
C13_Witness ==
    /\ last.op = "validate" /\ last.exc # ""
    /\ \E i, j \in 1..Len(Fields) :
          /\ i < j /\ last.arg = i
          /\ Offends(last.before, i) /\ Offends(last.before, j)
          /\ Has(schema, last.before, Fields[i].name)
          /\ ~Has(schema, last.before, Fields[j].name)

\* C20: when validate() fails at a field, every declared field before it that was
\* present holds its converted value, those before it that were absent are absent,
\* and the failing field and every field after it are as they were before the call.
C20_ValidateNotAtomic ==
    (last.op = "validate" /\ last.exc # "") =>
        \A j \in 1..Len(Fields) :
            LET k == Fields[j].name
            IN  IF j < last.arg /\ Has(schema, last.before, k)
                THEN /\ Has(schema, item, k)
                     /\ ValueOf(item, k) = Convert(Fields[j].type, ValueOf(last.before, k)).ret
                ELSE GetItemOf(schema, item, k) = GetItemOf(schema, last.before, k)

\* validate() has failed after it changed the value of an earlier field
C20_Witness ==
    /\ last.op = "validate" /\ last.exc # ""
    /\ \E j \in 1..Len(Fields) :
          /\ j < last.arg /\ Has(schema, last.before, Fields[j].name)
          /\ ValueOf(item, Fields[j].name) # ValueOf(last.before, Fields[j].name)

(***************************************************************************)
(* Properties of extract(), under ExtractSpec.  After extract() and after  *)
(* the validate() that follows it, path and response.doc are the rule set  *)
(* and the document of the pass.                                           *)
(***************************************************************************)
\* a take-first rule whose query finds nothing in the document
NoMatch(rule) ==
    rule[3] = extract_with_take_first /\ Matches(rule[1], rule[2], response.doc) = <<>>

\* the result of a rule that finds something
Found(rule) == extract_value(rule[1], rule[2], response.doc, rule[3]).ret

\* every view of the response was there to be produced when the pass began
ViewsAvailable(resp) ==
    /\ resp.content
    /\ Docs[resp.doc].decodable /\ Docs[resp.doc].html /\ Docs[resp.doc].json # "bad"

\* the i-th and the j-th rule of the e-th key both give a result, and the results differ
Disagree(e, i, j) ==
    /\ ~NoMatch(path[e].rules[i]) /\ ~NoMatch(path[e].rules[j])
    /\ ~PyEq(Found(path[e].rules[i]), Found(path[e].rules[j]))

NoDisagreement ==
    \A e \in 1..Len(path) : \A i, j \in 1..Len(path[e].rules) : ~Disagree(e, i, j)

AllMiss(e) == \A i \in 1..Len(path[e].rules) : NoMatch(path[e].rules[i])

\* C1 as stated: when two rules of a field give results that differ, extract() fails
\* with an ItemExtractError that names the field and the two values, whatever the
\* type of the values.
C1_ConflictRaisesItemExtractError ==
    (last.op = "extract" /\ ViewsAvailable(last.before)) =>
        \A e \in 1..Len(path) : \A i, j \in 1..Len(path[e].rules) :
            (i < j /\ Disagree(e, i, j)) =>
                /\ last.exc = "ItemExtractError"
                /\ \E f \in 1..Len(path) : \E m, n \in 1..Len(path[f].rules) :
                      /\ m < n /\ Disagree(f, m, n)
                      /\ last.ret.args = <<Val(Found(path[f].rules[m])),
                                           Val(Found(path[f].rules[n])), path[f].key>>

\* C2: a take-first rule that finds nothing raises nothing and leaves the working
\* value alone: when the results of the other rules do not differ, extract() succeeds,
\* and the field holds the value the other rules of its list give, wherever in the
\* list the rule that finds nothing stands.
C2_MissingMatchSkipped ==
    (last.op = "extract" /\ ViewsAvailable(last.before)) =>
        /\ NoDisagreement => last.exc = ""
        /\ last.exc = "" =>
              \A e \in 1..Len(path) : \A i, j \in 1..Len(path[e].rules) :
                  (NoMatch(path[e].rules[i]) /\ ~NoMatch(path[e].rules[j])) =>
                      /\ Has(schema, item, path[e].key)
                      /\ PyEq(ValueOf(item, path[e].key), Found(path[e].rules[j]))

\* the field's rules were [no match, "fallback"], or the other way round
C2_Witness ==
    /\ last.op = "extract" /\ last.exc = ""
    /\ \E e \in 1..Len(path) : \E i, j \in 1..2 :
          /\ Len(path[e].rules) = 2 /\ i # j
          /\ NoMatch(path[e].rules[i]) /\ ~NoMatch(path[e].rules[j])
          /\ ValueOf(item, path[e].key) = s_fallback

C4_AgreementKeepsRawValue ==
    /\ (last.op = "extract" /\ ViewsAvailable(last.before) /\ NoDisagreement) =>
          /\ last.exc = ""
          /\ \A e \in 1..Len(path) : \A i \in 1..Len(path[e].rules) :
                ~NoMatch(path[e].rules[i]) =>
                    /\ Has(schema, item, path[e].key)
                    /\ ValueOf(item, path[e].key) = Found(path[e].rules[i])
    /\ (last.op = "validate" /\ last.exc = "") =>
          \A e \in 1..Len(path) : \A i \in 1..Len(path[e].rules) :
              ~NoMatch(path[e].rules[i]) =>
                  ValueOf(item, path[e].key) =
                      Convert(FieldOf(schema, path[e].key).type, Found(path[e].rules[i])).ret

\* two rules of the integer field star both gave "128", and validate() made it 128
C4_Witness ==
    /\ last.op = "validate" /\ last.exc = ""
    /\ \E e \in 1..Len(path) :
          /\ path[e].key = n_star /\ Len(path[e].rules) = 2
          /\ Found(path[e].rules[1]) = s_128 /\ Found(path[e].rules[2]) = s_128
          /\ ValueOf(last.before, n_star) = s_128
          /\ ValueOf(item, n_star) = i_128

\* the i-th rule of the e-th key gives the result None
YieldsNull(e, i) == ~NoMatch(path[e].rules[i]) /\ Found(path[e].rules[i]) = PyNone

\* C17 as stated: a result of None is a value: a later rule of the field whose result
\* is not None raises the conflict error, ItemExtractError; when no results differ the
\* record returned has the field as a key with value None.
C17_NullIsAValue ==
    (last.op = "extract" /\ ViewsAvailable(last.before)) =>
        \A e \in 1..Len(path) : \A i \in 1..Len(path[e].rules) :
            YieldsNull(e, i) =>
                /\ (\E j \in (i + 1)..Len(path[e].rules) : Disagree(e, i, j)) =>
                      last.exc = "ItemExtractError"
                /\ NoDisagreement =>
                      /\ last.exc = ""
                      /\ Has(schema, item, path[e].key)
                      /\ path[e].key \in IterKeys(item)
                      /\ ValueOf(item, path[e].key) = PyNone

\* the rules of the rule set in the order extract() meets them: <<e, i>> is the i-th
\* rule of the e-th key
RECURSIVE PassOrder(_)
PassOrder(e) ==
    IF e > Len(path) THEN <<>>
    ELSE [i \in 1..Len(path[e].rules) |-> <<e, i>>] \o PassOrder(e + 1)

RuleAt(n) == path[PassOrder(1)[n][1]].rules[PassOrder(1)[n][2]]

\* the error with which the view of the n-th rule of the pass cannot be produced on
\* the response resp, "" if it can: nothing can be read from a body that was not
\* read; the tree needs a text that lxml parses; the JSON needs a text that decodes
\* strictly, unless an earlier access has cached the text, and that is JSON
ViewError(resp, n) ==
    LET doc == Docs[resp.doc]
        _type == RuleAt(n)[1]
        cached == resp.text # "None" \/ \E m \in 1..(n - 1) : RuleAt(m)[1] \in {"xpath", "regex"}
    IN  IF ~resp.content THEN "ValueError"
        ELSE IF _type = "xpath" /\ ~doc.html THEN "ParserError"
        ELSE IF _type = "jpath" /\ ~doc.decodable /\ ~cached THEN "UnicodeDecodeError"
        ELSE IF _type = "jpath" /\ doc.json = "bad" THEN "JSONDecodeError"
        ELSE ""

\* two rules of one key, both met before the n-th rule of the pass, disagree
DisagreeBefore(n) ==
    \E a, b \in 1..(n - 1) :
        /\ a < b /\ PassOrder(1)[a][1] = PassOrder(1)[b][1]
        /\ Disagree(PassOrder(1)[a][1], PassOrder(1)[a][2], PassOrder(1)[b][2])

\* C14: when the view an instruction needs cannot be produced, extract() fails: it
\* returns no record, and the instruction is not skipped.  The error is the one of the
\* first such instruction of the pass, unless two earlier results had disagreed.
C14_ViewErrorPropagates ==
    last.op = "extract" =>
        \A n \in 1..Len(PassOrder(1)) :
            ViewError(last.before, n) # "" =>
                /\ last.exc # ""
                /\ ((\A m \in 1..(n - 1) : ViewError(last.before, m) = "") /\ ~DisagreeBefore(n)) =>
                      last.exc = ViewError(last.before, n)

\* extract() on a read response has failed at a rule whose view cannot be produced,
\* after a rule whose view could
C14_Witness ==
    /\ last.op = "extract" /\ last.before.content
    /\ \E n \in 2..Len(PassOrder(1)) :
          /\ ViewError(last.before, n) # "" /\ last.exc = ViewError(last.before, n)
          /\ \A m \in 1..(n - 1) : ViewError(last.before, m) = ""

C9_ShadowRoundTrip ==
    /\ last.op = "get_name_from_shadow" => last.ret = last.before
    /\ (last.op = "make_shadow_name" /\ last.arg = ShadowNamePrefix) =>
          last.exc = "AttributeError"

(***************************************************************************)
(* Properties of single instructions, under RuleSpec.                      *)
(***************************************************************************)
\* the strings of a list of strings, one after the other
RECURSIVE Concat(_)
Concat(strs) == IF strs = <<>> THEN <<>> ELSE Val(strs[1]) \o Concat(SubSeq(strs, 2, Len(strs)))

OnlyStr(x) == Tag(x) = "str"

\* C11: join-all returns the concatenation, in match order and with nothing between,
\* of exactly the matches that are strings: the empty string when none is, and
\* "Stars: Forks: 3" for ["Stars: ", 42, "Forks: 3"].
C11_JoinAllConcatenatesStrings ==
    /\ (last.op = "handle_by_extract_type" /\ last.arg[2] = extract_with_join_all) =>
          /\ last.exc = ""
          /\ last.ret = PyStrVal(Concat(SelectSeq(last.arg[1], OnlyStr)))
          /\ (\A i \in 1..Len(last.arg[1]) : ~OnlyStr(last.arg[1][i])) => last.ret = PyStrVal(<<>>)
    /\ (last.op = "extract_value" /\ last.arg[1] = "jpath" /\ last.arg[3] = "conflict"
            /\ last.arg[4] = extract_with_join_all) =>
          last.ret = PyStrVal(<<"S", "t", "a", "r", "s", ":", " ",
                                "F", "o", "r", "k", "s", ":", " ", "3">>)

\* join-all has been applied to ["Stars: ", 42, "Forks: 3"]
C11_Witness ==
    /\ last.op = "handle_by_extract_type" /\ last.arg[2] = extract_with_join_all
    /\ last.arg[1] = <<s_stars, PyIntVal(42), s_forks>>
    /\ last.ret = PyStrVal(Val(s_stars) \o Val(s_forks))

\* the error extract_value raises for a tag it does not know
UnsupportedType(call, _type) ==
    call.exc = "ValueError" /\ call.ret = <<"The type: {:s} not support", _type>>

C12_GetMissingKeyRaisesKeyError ==
    (last.op = "__getitem__" /\ ~is_shadow_name(last.arg) /\ last.arg \notin IterKeys(item)) =>
        last.exc = "KeyError"

\* C19 as stated: iteration yields each set logical name exactly once, get on every
\* yielded key succeeds, the key just set is yielded and get returns the value just
\* set for it, and len() is the number of names yielded.
C19_MappingConsistent ==
    /\ \A k \in IterKeys(item) : IterCount(item, k) = 1 /\ GetItemOf(schema, item, k).exc = ""
    /\ last.op = "__setitem__" =>
          /\ last.arg[1] \in IterKeys(item)
          /\ GetItemOf(schema, item, last.arg[1]) = Ok(last.arg[2])
    /\ last.op = "__len__" => last.ret[1] = last.ret[2]

(***************************************************************************)
(* Properties of the views of a response, under ResponseSpec.              *)
(***************************************************************************)
ViewOps == {"get_text", "get_json", "html_element"}

\* C18 as stated: an access of a view that follows an access of that view that
\* succeeded succeeds, computes nothing (no decoding, no parsing) and returns the same
\* value, whatever the view holds and whatever arguments it is given; and get_text
\* before the body is read fails and caches nothing.
C18_ViewsComputedOnce ==
    /\ (last.op \in ViewOps /\ last.again) =>
          /\ last.exc = ""
          /\ last.arg[2] = {}
          /\ response = last.before
    /\ (last.op = "get_text" /\ ~last.before.content) =>
          (last.exc = "ValueError" /\ response = last.before /\ response.text = "None")

====
